---- MODULE Spec2Model ----
(***************************************************************************)
(* Staged video pipeline: entry points (run_pipeline.main,                 *)
(* server.run_animation, a stage script started by hand), the stage        *)
(* scripts under scripts/, and the artifact store output/ they share.      *)
(*                                                                         *)
(* Texts are sequences of word tokens (what str.split() returns); a        *)
(* summary is a sequence of sentences (what str.split('. ') returns).      *)
(***************************************************************************)
EXTENDS Integers, Sequences, FiniteSets, TLC

\* ---------------------------------------------------------------- bounds
\* entry-point activations in one behaviour, after the one that may have left files
MaxRuns == 1

\* ------------------------------------------------------- program constants
\* generate_prompt.py: max_retries = 3
max_retries == 3

\* ------------------------------------------------------------------ texts
W(n) == [i \in 1..n |-> "w"]

RECURSIVE Flatten(_)
Flatten(ss) == IF ss = <<>> THEN <<>> ELSE Head(ss) \o Flatten(Tail(ss))

Take(s, n) == SubSeq(s, 1, IF Len(s) < n THEN Len(s) ELSE n)

\* a sample of generate_prompt.popular_math_topics
popular_math_topics == { <<"Pi">>, <<"Pythagorean", "theorem">> }

\* what DisambiguationError.options[0] can be: a page title
DisambiguationOptions == { <<"Pi", "(letter)">> }

\* what wikipedia.summary() can return: no text, one short sentence, three
\* sentences of twenty words; the topic stage is followed with the last only
WikiSummaries == { <<>>, << W(3) >>, << W(20), W(20), W(20) >> }
Summaries == { << W(20), W(20), W(20) >> }

\* what the Ollama generate call can return in "response" when it answers 200
OllamaTexts == { <<>>, W(6), W(60) }

\* titles a Wikipedia search or the random-page query can return
WikipediaTitles ==
  { << "Euler's", "formula" >>, << "e:", "The", "Story", "of", "a", "Number" >> }

\* ------------------------------------------------------------ file names
\* a text as the string of its characters: the words joined by blanks; a character
\* that no name-building code looks at is written "a", and a word is taken to be
\* five characters long unless it holds a character that such code looks at
A(n) == [i \in 1..n |-> "a"]
Letters(word) ==
  CASE word = "Euler's" -> A(5) \o << "'" >> \o A(1)
    [] word = "e:" -> << "a", ":" >>
    [] OTHER -> A(5)
RECURSIVE Spelled(_)
Spelled(text) ==
  IF text = <<>> THEN <<>>
  ELSE IF Len(text) = 1 THEN Letters(text[1])
  ELSE Letters(text[1]) \o << " " >> \o Spelled(Tail(text))

\* s.replace(old, new) for a one-character old; new is a string of characters
RECURSIVE Replace(_, _, _)
Replace(s, old, new) ==
  IF s = <<>> THEN <<>>
  ELSE (IF Head(s) = old THEN new ELSE << Head(s) >>) \o Replace(Tail(s), old, new)

\* combine_video.sanitize_filename
sanitize_filename(filename) ==
  LET removed == SelectSeq(filename, LAMBDA c :
                   c \notin { "<", ">", ":", "\"", "/", "\\", "|", "?", "*" })
      underscored == Replace(removed, " ", << "_" >>)
  IN  SubSeq(underscored, 1, IF Len(underscored) < 100 THEN Len(underscored) ELSE 100)

\* download_images.sanitize_filename
images_sanitize_filename(filename) ==
  [i \in 1..Len(filename) |->
     IF filename[i] \in { "<", ">", ":", "\"", "/", "\\", "|", "?", "*" } THEN "_"
     ELSE filename[i]]

\* safe_name of generate_bulk.create_dynamic_video
safe_name(topic) == Replace(Replace(Replace(topic, " ", << "_" >>), "'", <<>>), "/", << "_" >>)

\* ------------------------------------------------------------ the store
NoTopic    == [st |-> "absent", fmt |-> "", topic |-> <<>>, explanation |-> <<>>, by |-> 0]
NoScript   == [st |-> "absent", fmt |-> "", topic |-> <<>>, full_text |-> <<>>, source |-> "", by |-> 0]
NoEntities == [st |-> "absent", fmt |-> "", images |-> {}, formulas |-> {},
               has_downloaded |-> FALSE,
               downloaded_images |-> {}, by |-> 0]
NoImage    == [st |-> "absent", by |-> 0]
NoAudio    == [st |-> "absent", by |-> 0]

\* open(path, "w") leaves an empty file until the data is flushed to it
Truncated(empty, id) == [empty EXCEPT !.st = "partial", !.by = id]

\* entity names analyze_script can find an image for
ImageNames == { "Euler", "Greece" }

\* where a render can leave its video; combine_video looks at the first only
\* (possible_video_paths), the second is what the CLI's default options give
CandidatePath == "media/videos/render_manim_shorts/1080p60/STEMScene.mp4"
DefaultPath   == "media/videos/render_manim_dynamic/1920p60/STEMScene.mp4"
BulkPath      == "media/videos/render_manim_dynamic/1080p60/DynamicScene.mp4"
possible_video_paths == << BulkPath, CandidatePath >>
RenderPaths == { CandidatePath, DefaultPath, BulkPath }

StageScript ==
  << "generate_prompt", "generate_script", "analyze_script", "download_images",
     "generate_audio", "manim_render", "combine_video" >>
Stages == 1..7

VARIABLES
  files,   \* prompts.csv and output/: topic.json, script.json, entities.json,
           \* images/, audio.wav, bulk_videos/generation_results.json,
           \* final_*.mp4, audio.mp3, videos/
  media,   \* media/videos: the rendered files, path -> run that wrote it (0: none)
  orch,    \* the entry point that is active, its options and its position
  stage,   \* status of each stage of the active run
  proc,    \* the stage script running as a subprocess, or "none"
  pc,      \* where the subprocess is
  loc,     \* the subprocess's local variables
  rc,      \* returncode of the last subprocess
  out,     \* what the entry point printed or answered
  exit,    \* exit code or HTTP status of the entry point, -1 while running
  runs,    \* activations so far
  other    \* stages done by a second POST /run-animation that runs at the same time

vars == << files, media, orch, stage, proc, pc, loc, rc, out, exit, runs, other >>

NoLoc == [attempt |-> 0, topic |-> <<>>, summary |-> <<>>, text |-> <<>>,
          data |-> NoEntities, todo |-> {}, got |-> {},
          has_wiki |-> FALSE, audio_generated |-> FALSE,
          provider |-> "", tried |-> <<>>, source |-> "",
          video_duration |-> 0, audio_duration |-> 0,
          sentences |-> <<>>, keyframes |-> <<>>,
          script |-> [hook |-> <<>>, main_point_1 |-> <<>>, main_point_2 |-> <<>>,
                      closing |-> <<>>, full_text |-> <<>>],
          word_count |-> 0,
          probe |-> "", have |-> {}, preferred |-> "", model |-> "",
          tasks |-> <<>>, i |-> 0,
          results |-> [total |-> 0, success |-> 0, failed |-> 0, videos |-> <<>>],
          saved |-> 0, returned |-> ""]

Idle == [kind |-> "none", state |-> "done", id |-> 0, step |-> 0,
         prefer |-> "auto", ollama_script |-> TRUE, topic |-> <<>>]

\* the run that an earlier activation had, when there was one
Earlier == 1

\* prompts.csv and output/bulk_videos/generation_results.json when there is none
NoPrompts == [st |-> "absent", rows |-> <<>>]
NoResults == [st |-> "absent", total |-> 0, success |-> 0, failed |-> 0, videos |-> <<>>,
              by |-> 0]

\* output/ and media/ before anything ran
FreshStore ==
  [topic |-> NoTopic, script |-> NoScript, entities |-> NoEntities,
   images |-> [n \in ImageNames |-> NoImage], audio |-> NoAudio,
   finals |-> <<>>, audio_mp3 |-> NoAudio, videos |-> <<>>,
   prompts |-> NoPrompts, results |-> NoResults]
FreshMedia == [p \in RenderPaths |-> 0]

\* output/ and media/ as a complete earlier run about "Pi" left them, with the
\* prompts.csv and the results file of an earlier bulk generation
LeftStore ==
  [topic |-> [st |-> "ok", fmt |-> "pipeline", topic |-> << "Pi" >>,
              explanation |-> << W(20), W(20), W(20) >>, by |-> Earlier],
   script |-> [st |-> "ok", fmt |-> "pipeline", topic |-> << "Pi" >>,
               full_text |-> W(60), source |-> "ollama", by |-> Earlier],
   entities |-> [st |-> "ok", fmt |-> "pipeline", images |-> {}, formulas |-> {},
                 has_downloaded |-> FALSE, downloaded_images |-> {}, by |-> Earlier],
   images |-> [n \in ImageNames |-> NoImage],
   audio |-> [st |-> "ok", by |-> Earlier],
   finals |-> << [name |-> sanitize_filename(Spelled(<< "Pi" >>)), by |-> Earlier, video |-> Earlier, audio |-> Earlier,
                  clip |-> 1, duration |-> 2] >>,
   audio_mp3 |-> NoAudio, videos |-> <<>>,
   prompts |-> [st |-> "ok", rows |-> << [Name |-> "spiral", Variations |-> "2"] >>],
   results |-> [st |-> "ok", total |-> 2, success |-> 2, failed |-> 0,
                videos |-> << [name |-> "spiral", variation |-> 1],
                              [name |-> "spiral", variation |-> 2] >>,
                by |-> Earlier]]
LeftMedia == [p \in RenderPaths |-> IF p = CandidatePath THEN Earlier ELSE 0]

\* output/ as an earlier run that stopped at its audio stage left it, with the
\* video of a render that was then started by hand in media/ (LeftMedia)
UnvoicedStore == [LeftStore EXCEPT !.audio = NoAudio, !.finals = <<>>]

Init ==
  /\ \/ files = FreshStore /\ media = FreshMedia
     \/ files = LeftStore /\ media = LeftMedia
     \/ files = UnvoicedStore /\ media = LeftMedia
  /\ orch = Idle
  /\ stage = [k \in Stages |-> "Pending"]
  /\ proc = "none"
  /\ pc = "none"
  /\ loc = NoLoc
  /\ rc = 0
  /\ out = <<>>
  /\ exit = -1
  /\ runs = 0
  /\ other = 0

\* ------------------------------------------------------- subprocess ends
\* the stage script ends with returncode c
Exits(c) ==
  /\ proc' = proc
  /\ pc' = "exited"
  /\ loc' = NoLoc
  /\ rc' = c

Running(name, at) == proc = name /\ pc = at

orchVars == << orch, stage, out, exit, runs, other >>

\* ------------------------------------------- scripts/generate_prompt.py
PromptChoose ==
  /\ Running("generate_prompt", "start")
  /\ \E t \in popular_math_topics : loc' = [NoLoc EXCEPT !.topic = t]
  /\ pc' = "summary"
  /\ UNCHANGED << files, media, proc, rc, orchVars >>

PromptSummaryOk ==
  /\ Running("generate_prompt", "summary")
  /\ \E s \in Summaries : loc' = [loc EXCEPT !.summary = s]
  /\ pc' = "open"
  /\ UNCHANGED << files, media, proc, rc, orchVars >>

\* as PromptRetry, had the loop allowed one attempt more
PromptRetry_OneMore ==
  IF loc.attempt < max_retries
  THEN /\ \E t \in popular_math_topics :
            loc' = [loc EXCEPT !.topic = t, !.attempt = loc.attempt + 1]
       /\ UNCHANGED << proc, pc, rc >>
  ELSE Exits(1)

\* the retry of both handlers: another random topic, or the exception again
\* once the attempts are used up
PromptRetry ==
  IF loc.attempt < max_retries - 1
  THEN /\ \E t \in popular_math_topics :
            loc' = [loc EXCEPT !.topic = t, !.attempt = loc.attempt + 1]
       /\ UNCHANGED << proc, pc, rc >>
  ELSE Exits(1)

PromptDisambiguation ==
  /\ Running("generate_prompt", "summary")
  /\ \E o \in DisambiguationOptions :
       \/ /\ \E s \in Summaries : loc' = [loc EXCEPT !.topic = o, !.summary = s]
          /\ pc' = "open"
          /\ UNCHANGED << proc, rc >>
       \/ PromptRetry
  /\ UNCHANGED << files, media, orchVars >>

PromptPageError ==
  /\ Running("generate_prompt", "summary")
  /\ PromptRetry
  /\ UNCHANGED << files, media, orchVars >>

\* any other exception of the summary call (no network) is not handled in the loop
PromptOtherError ==
  /\ Running("generate_prompt", "summary")
  /\ Exits(1)
  /\ UNCHANGED << files, media, orchVars >>

PromptOpen ==
  /\ Running("generate_prompt", "open")
  /\ files' = [files EXCEPT !.topic = Truncated(NoTopic, orch.id)]
  /\ pc' = "dump"
  /\ UNCHANGED << media, proc, loc, rc, orchVars >>

PromptDump ==
  /\ Running("generate_prompt", "dump")
  /\ files' = [files EXCEPT !.topic =
        [st |-> "ok", fmt |-> "pipeline", topic |-> loc.topic,
         explanation |-> loc.summary, by |-> orch.id]]
  /\ Exits(0)
  /\ UNCHANGED << media, orchVars >>

\* ------------------------------------- scripts/generate_script_ollama.py
\* data.get("topic") or "Mathematics"
TopicOrDefault(t) == IF t = <<>> THEN << "Mathematics" >> ELSE t

\* what GET /api/tags can list, in lower case, and what --model or the request's
\* model can be ("" for None)
InstalledModels == { {}, { "qwen:4b" }, { "qwen2.5:7b", "qwen2.5:4b", "mistral" } }
PreferredModels == { "", "Mistral", "qwen3:4b" }

\* str.lower()
lower(name) == IF name = "Mistral" THEN "mistral" ELSE name

\* the first candidate that is installed, "llama3.1" when none is
first_installed(candidates, names) ==
  LET found == { i \in 1..Len(candidates) : candidates[i] \in names }
  IN  IF found = {} THEN "llama3.1"
      ELSE candidates[CHOOSE i \in found : \A j \in found : i <= j]

\* generate_script_ollama.pick_ollama_model; names is empty when the probe failed
pick_ollama_model(preferred, names) ==
  IF preferred # "" /\ lower(preferred) \in names THEN preferred
  ELSE first_installed(<< "qwen3:4b", "qwen2.5:4b", "qwen2.5:7b", "qwen:4b" >>, names)

\* server._pick_ollama_model
server_pick_ollama_model(preferred, have) ==
  IF preferred # "" /\ lower(preferred) \in have THEN preferred
  ELSE first_installed(<< "qwen3:4b", "qwen2.5:4b", "qwen2.5:7b" >>, have)

OllamaLoad ==
  /\ Running("generate_script_ollama", "start")
  /\ IF files.topic.st = "absent"
     THEN Exits(1)
     ELSE IF files.topic.st = "partial"
     THEN Exits(1)                       \* json.load raises, nothing catches it
     ELSE /\ loc' = [NoLoc EXCEPT !.topic = TopicOrDefault(files.topic.topic)]
          /\ pc' = "pick"
          /\ UNCHANGED << proc, rc >>
  /\ UNCHANGED << files, media, orchVars >>

\* pick_ollama_model: GET /api/tags answers 200 with the installed models, or it
\* raises, times out or answers another status and names is empty; --model is
\* given only when the script is started by hand
OllamaPick ==
  /\ Running("generate_script_ollama", "pick")
  /\ \E preferred \in (IF orch.kind = "script" THEN PreferredModels ELSE { "" }) :
       \/ \E names \in InstalledModels :
            loc' = [loc EXCEPT !.probe = "ok", !.have = names, !.preferred = preferred,
                               !.model = pick_ollama_model(preferred, names)]
       \/ loc' = [loc EXCEPT !.probe = "failed", !.have = {}, !.preferred = preferred,
                             !.model = pick_ollama_model(preferred, {})]
  /\ pc' = "generate"
  /\ UNCHANGED << files, media, proc, rc, orchVars >>

\* the POST raises, times out or answers another status than 200
OllamaRequestFails ==
  /\ Running("generate_script_ollama", "generate")
  /\ Exits(2)
  /\ UNCHANGED << files, media, orchVars >>

OllamaResponse ==
  /\ Running("generate_script_ollama", "generate")
  /\ \E t \in OllamaTexts :
       IF t = <<>>
       THEN Exits(2)
       ELSE /\ loc' = [NoLoc EXCEPT !.topic = loc.topic, !.text = t]
            /\ pc' = "open"
            /\ UNCHANGED << proc, rc >>
  /\ UNCHANGED << files, media, orchVars >>

OllamaOpen ==
  /\ Running("generate_script_ollama", "open")
  /\ files' = [files EXCEPT !.script = Truncated(NoScript, orch.id)]
  /\ pc' = "dump"
  /\ UNCHANGED << media, proc, loc, rc, orchVars >>

OllamaDump ==
  /\ Running("generate_script_ollama", "dump")
  /\ files' = [files EXCEPT !.script =
        [st |-> "ok", fmt |-> "pipeline", topic |-> loc.topic,
         full_text |-> loc.text, source |-> "ollama", by |-> orch.id]]
  /\ Exits(0)
  /\ UNCHANGED << media, orchVars >>

\* -------------------------------------------- scripts/generate_script.py
\* characters of a text of n words: the words are taken to be WordChars long
WordChars == 5
Chars(text) == IF text = <<>> THEN 0 ELSE Len(text) * (WordChars + 1) - 1

\* text[a:b], as the words that have a character in the slice
Slice(text, a, b) ==
  LET in == { i \in 1..Len(text) :
                /\ (i - 1) * (WordChars + 1) < b
                /\ (i - 1) * (WordChars + 1) + WordChars > a }
  IN  IF in = {} THEN <<>>
      ELSE SubSeq(text, CHOOSE i \in in : \A j \in in : i <= j,
                        CHOOSE i \in in : \A j \in in : i >= j)

Has(topic, keyword) == \E i \in 1..Len(topic) : topic[i] = keyword

\* hooks, in the order of the dict; the keyword is looked up in topic.lower()
generate_hook(topic) ==
  IF Has(topic, "theorem") THEN << "One", "of", "math's", "most", "important", "results:" >> \o topic
  ELSE IF Has(topic, "equation") THEN << "The", "famous" >> \o topic \o << "explained!" >>
  ELSE IF Has(topic, "number") THEN << "What", "makes" >> \o topic \o << "special?" >>
  ELSE IF Has(topic, "sequence") THEN << "The", "fascinating" >> \o topic
  ELSE IF Has(topic, "paradox") THEN << "Can", "you", "solve" >> \o topic
  ELSE IF Has(topic, "problem") THEN << "The", "mind-bending" >> \o topic
  ELSE IF Has(topic, "constant") THEN << "The", "mysterious", "number:" >> \o topic
  ELSE IF Has(topic, "function") THEN << "Understanding" >> \o topic
  ELSE IF Has(topic, "formula") THEN << "The", "powerful" >> \o topic
  ELSE << "Let's", "explore" >> \o topic

\* a sample of generate_call_to_action's ctas: the longest and a shortest
ctas ==
  { << "Tap", "the", "heart", "if", "you", "learned", "something!" >>,
    << "Share", "this", "with", "math", "lovers!" >> }

\* the sentences kept while the running word count stays within max_words
RECURSIVE simplify_explanation(_, _)
simplify_explanation(sentences, max_words) ==
  IF sentences = <<>> \/ Len(Head(sentences)) > max_words THEN <<>>
  ELSE << Head(sentences) >>
         \o simplify_explanation(Tail(sentences), max_words - Len(Head(sentences)))

\* sentences of more than 20 characters, the first max_points of them
extract_key_points(sentences, max_points) ==
  Take(SelectSeq(sentences, LAMBDA s : Chars(s) > 20), max_points)

\* as structure_content, had full_text been put together without main_point_2
structure_content_one_point(topic, sentences, closing) ==
  LET hook == generate_hook(topic)
      key_points == extract_key_points(sentences, 2)
      explanation == Flatten(sentences)
      main_point_1 == IF Len(key_points) >= 2 THEN key_points[1]
                      ELSE IF Chars(explanation) > 200 THEN Slice(explanation, 0, 200)
                      ELSE explanation
      main_point_2 == IF Len(key_points) >= 2 THEN key_points[2]
                      ELSE IF Chars(explanation) > 400 THEN Slice(explanation, 200, 400)
                      ELSE <<>>
  IN  [hook |-> hook, main_point_1 |-> main_point_1, main_point_2 |-> main_point_2,
       closing |-> closing,
       full_text |-> hook \o main_point_1 \o closing]

\* the script of structure_content with the closing that was drawn
structure_content(topic, sentences, closing) ==
  LET hook == generate_hook(topic)
      key_points == extract_key_points(sentences, 2)
      explanation == Flatten(sentences)
      main_point_1 == IF Len(key_points) >= 2 THEN key_points[1]
                      ELSE IF Chars(explanation) > 200 THEN Slice(explanation, 0, 200)
                      ELSE explanation
      main_point_2 == IF Len(key_points) >= 2 THEN key_points[2]
                      ELSE IF Chars(explanation) > 400 THEN Slice(explanation, 200, 400)
                      ELSE <<>>
  IN  [hook |-> hook, main_point_1 |-> main_point_1, main_point_2 |-> main_point_2,
       closing |-> closing,
       full_text |-> hook \o main_point_1 \o main_point_2 \o closing]

LocalLoad ==
  /\ Running("generate_script", "start")
  /\ IF files.topic.st # "ok"
     THEN Exits(1)                      \* FileNotFoundError, or json.load raises
     ELSE /\ \E closing \in ctas :
               LET script == structure_content(files.topic.topic,
                               simplify_explanation(files.topic.explanation, 80),
                               closing)
               IN  loc' = [NoLoc EXCEPT
                     !.topic = files.topic.topic,
                     !.script = script,
                     !.text = script.full_text,
                     !.word_count = Len(script.full_text)]
          /\ pc' = "open"
          /\ UNCHANGED << proc, rc >>
  /\ UNCHANGED << files, media, orchVars >>

LocalOpen ==
  /\ Running("generate_script", "open")
  /\ files' = [files EXCEPT !.script = Truncated(NoScript, orch.id)]
  /\ pc' = "dump"
  /\ UNCHANGED << media, proc, loc, rc, orchVars >>

\* json.dump(script_data); source tags the record as the local generator's
LocalDump ==
  /\ Running("generate_script", "dump")
  /\ files' = [files EXCEPT !.script =
        [st |-> "ok", fmt |-> "pipeline", topic |-> loc.topic,
         full_text |-> loc.text, source |-> "local", by |-> orch.id]]
  /\ Exits(0)
  /\ UNCHANGED << media, orchVars >>

\* ------------------------------------------- scripts/analyze_script.py
\* the formulas of the keywords that the text mentions (formula_keywords)
extract_formulas(text) ==
  IF \E i \in 1..(Len(text) - 1) : text[i] = "Pythagorean" /\ text[i + 1] = "theorem"
  THEN { << "a2", "+", "b2", "=", "c2" >> }
  ELSE {}

\* script.json missing: analyze_script() returns None and result['topic'] raises;
\* unparsable, or "script" is a string (generate_bulk's layout): the read raises
AnalyzeLoad ==
  /\ Running("analyze_script", "start")
  /\ IF files.script.st # "ok" \/ files.script.fmt # "pipeline"
     THEN Exits(1)
     ELSE /\ \E found \in SUBSET ImageNames :     \* search_wikipedia_image answers
               loc' = [NoLoc EXCEPT !.topic = files.script.topic, !.todo = found,
                                    !.text = files.script.full_text]
          /\ pc' = "open"
          /\ UNCHANGED << proc, rc >>
  /\ UNCHANGED << files, media, orchVars >>

AnalyzeOpen ==
  /\ Running("analyze_script", "open")
  /\ files' = [files EXCEPT !.entities = Truncated(NoEntities, orch.id)]
  /\ pc' = "dump"
  /\ UNCHANGED << media, proc, loc, rc, orchVars >>

AnalyzeDump ==
  /\ Running("analyze_script", "dump")
  /\ files' = [files EXCEPT !.entities =
        [st |-> "ok", fmt |-> "pipeline", images |-> loc.todo,
         formulas |-> extract_formulas(loc.text),
         has_downloaded |-> FALSE, downloaded_images |-> {}, by |-> orch.id]]
  /\ Exits(0)
  /\ UNCHANGED << media, orchVars >>

\* ------------------------------------------ scripts/download_images.py
\* entities.json missing, or no images in it: download_all_images() returns None
\* and the script ends normally; unparsable: json.load raises, exit(1)
DownloadLoad ==
  /\ Running("download_images", "start")
  /\ IF files.entities.st = "absent" THEN Exits(0)
     ELSE IF files.entities.st = "partial" THEN Exits(1)
     ELSE IF files.entities.images = {} THEN Exits(0)
     ELSE /\ loc' = [NoLoc EXCEPT !.data = files.entities, !.todo = files.entities.images]
          /\ pc' = "images"
          /\ UNCHANGED << proc, rc >>
  /\ UNCHANGED << files, media, orchVars >>

\* as DownloadImageRefused, had download_image let the exception through
DownloadImageRefused_Raises ==
  /\ Running("download_images", "images")
  /\ loc.todo # {}
  /\ Exits(1)
  /\ UNCHANGED << files, media, orchVars >>

\* download_image: the GET fails and nothing is written
DownloadImageRefused ==
  /\ Running("download_images", "images")
  /\ \E n \in loc.todo : loc' = [loc EXCEPT !.todo = loc.todo \ {n}]
  /\ UNCHANGED << files, media, proc, pc, rc, orchVars >>

\* download_image: the file is opened and every chunk arrives
DownloadImageSaved ==
  /\ Running("download_images", "images")
  /\ \E n \in loc.todo :
       /\ loc' = [loc EXCEPT !.todo = loc.todo \ {n}, !.got = loc.got \cup {n}]
       /\ files' = [files EXCEPT !.images[n] = [st |-> "ok", by |-> orch.id]]
  /\ UNCHANGED << media, proc, pc, rc, orchVars >>

\* download_image: the file is opened and iter_content raises before the last chunk
DownloadImageBroken ==
  /\ Running("download_images", "images")
  /\ \E n \in loc.todo :
       /\ loc' = [loc EXCEPT !.todo = loc.todo \ {n}]
       /\ files' = [files EXCEPT !.images[n] = [st |-> "partial", by |-> orch.id]]
  /\ UNCHANGED << media, proc, pc, rc, orchVars >>

DownloadOpen ==
  /\ Running("download_images", "images")
  /\ loc.todo = {}
  /\ files' = [files EXCEPT !.entities = Truncated(NoEntities, orch.id)]
  /\ pc' = "dump"
  /\ UNCHANGED << media, proc, loc, rc, orchVars >>

\* the record that was read, with downloaded_images added
DownloadDump ==
  /\ Running("download_images", "dump")
  /\ files' = [files EXCEPT !.entities =
        [loc.data EXCEPT !.has_downloaded = TRUE, !.downloaded_images = loc.got]]
  /\ Exits(0)
  /\ UNCHANGED << media, orchVars >>

\* ------------------------------------------- scripts/generate_audio.py
\* the text generate_tts_audio speaks: script.json's full_text, else topic.json's
\* explanation; <<>> stands for every way of raising before the engine starts
text_to_speak ==
  IF files.script.st # "absent"
  THEN IF files.script.st = "ok" /\ files.script.fmt = "pipeline"
       THEN files.script.full_text ELSE <<>>
  ELSE IF files.topic.st = "ok" THEN Flatten(files.topic.explanation)
  ELSE <<>>

AudioLoad ==
  /\ Running("generate_audio", "start")
  /\ IF text_to_speak = <<>>
     THEN Exits(1)
     ELSE /\ loc' = [NoLoc EXCEPT !.text = text_to_speak, !.tried = << "pyttsx3" >>]
          /\ pc' = "tts"
          /\ UNCHANGED << proc, rc >>
  /\ UNCHANGED << files, media, orchVars >>

\* pyttsx3 writes output/audio.wav
AudioSaved ==
  /\ Running("generate_audio", "tts")
  /\ files' = [files EXCEPT !.audio = [st |-> "ok", by |-> orch.id]]
  /\ Exits(0)
  /\ UNCHANGED << media, orchVars >>

\* as AudioFails, had the script caught the exception and returned normally
AudioFails_Swallowed ==
  /\ Running("generate_audio", "tts")
  /\ Exits(0)
  /\ UNCHANGED << files, media, orchVars >>

\* the engine raises
AudioFails ==
  /\ Running("generate_audio", "tts")
  /\ Exits(1)
  /\ UNCHANGED << files, media, orchVars >>

\* the engine returns without having written: output_file.exists() decides
AudioNotWritten ==
  /\ Running("generate_audio", "tts")
  /\ Exits(IF files.audio.st = "absent" THEN 1 ELSE 0)
  /\ UNCHANGED << files, media, orchVars >>

\* ------------------------------------------------------------ manim
\* the renderer leaves the video where its script, scene and options put it
ManimRenders ==
  /\ Running("manim_render", "start")
  /\ \E p \in RenderPaths : media' = [media EXCEPT ![p] = orch.id]
  /\ Exits(0)
  /\ UNCHANGED << files, orchVars >>

ManimFails ==
  /\ Running("manim_render", "start")
  /\ Exits(1)
  /\ UNCHANGED << files, media, orchVars >>

\* ------------------------------------------- scripts/combine_video.py
\* the first path of possible_video_paths that exists, "" when none does
video_file ==
  LET found == { i \in 1..Len(possible_video_paths) : media[possible_video_paths[i]] # 0 }
  IN  IF found = {} THEN ""
      ELSE possible_video_paths[CHOOSE i \in found : \A j \in found : i <= j]

\* final_<name>.mp4 is written last: the older file of that name is replaced
WriteFinal(finals, f) == SelectSeq(finals, LAMBDA g : g.name # f.name) \o << f >>

\* durations of the clips, in whole time units
MaxDuration == 4
Durations == 1..MaxDuration

\* as loops_needed, without the + 1
loops_needed_floor(video_duration, audio_duration) == audio_duration \div video_duration

\* int(audio_duration / video_duration) + 1
loops_needed(video_duration, audio_duration) == (audio_duration \div video_duration) + 1

\* clip.subclipped(0, t_end): the duration of the cut, -1 when t_end is past the clip
subclipped(duration, t_end) == IF t_end <= duration THEN t_end ELSE -1

\* the duration of video_clip after "Adjust video length to match audio duration"
adjusted_duration(video_duration, audio_duration) ==
  IF video_duration < audio_duration
  THEN subclipped(loops_needed(video_duration, audio_duration) * video_duration,
                  audio_duration)
  ELSE IF video_duration > audio_duration
  THEN subclipped(video_duration, audio_duration)
  ELSE video_duration

\* as CombineLoad, without the check that audio.wav exists
CombineLoad_AudioUnchecked ==
  /\ Running("combine_video", "start")
  /\ IF \/ video_file = ""
        \/ files.topic.st # "ok"
     THEN Exits(1)
     ELSE /\ \E v \in Durations, a \in Durations :
               loc' = [NoLoc EXCEPT !.topic = files.topic.topic,
                                    !.video_duration = v, !.audio_duration = a]
          /\ pc' = "mux"
          /\ UNCHANGED << proc, rc >>
  /\ UNCHANGED << files, media, orchVars >>

\* the checks of the inputs, then the two clips are loaded
CombineLoad ==
  /\ Running("combine_video", "start")
  /\ IF \/ video_file = ""
        \/ files.audio.st = "absent"
        \/ files.topic.st # "ok"
     THEN Exits(1)
     ELSE /\ \E v \in Durations, a \in Durations :
               loc' = [NoLoc EXCEPT !.topic = files.topic.topic,
                                    !.video_duration = v, !.audio_duration = a]
          /\ pc' = "mux"
          /\ UNCHANGED << proc, rc >>
  /\ UNCHANGED << files, media, orchVars >>

\* the clip is looped or cut, the audio is set and the final video is written
CombineWrites ==
  /\ Running("combine_video", "mux")
  /\ adjusted_duration(loc.video_duration, loc.audio_duration) >= 0
  /\ files' = [files EXCEPT !.finals =
        WriteFinal(@, [name |-> sanitize_filename(Spelled(loc.topic)), by |-> orch.id,
                       video |-> media[video_file],
                       audio |-> files.audio.by, clip |-> loc.video_duration,
                       duration |-> adjusted_duration(loc.video_duration,
                                                      loc.audio_duration)])]
  /\ Exits(0)
  /\ UNCHANGED << media, orchVars >>

\* moviepy raises while loading, cutting or writing
CombineFails ==
  /\ Running("combine_video", "mux")
  /\ Exits(1)
  /\ UNCHANGED << files, media, orchVars >>

\* the stage script is killed while its output file is open
Killed ==
  /\ proc # "none"
  /\ pc = "dump"
  /\ Exits(-9)
  /\ UNCHANGED << files, media, orchVars >>

\* ------------------------------------------------ run_pipeline.py (CLI)
NoFinal == [name |-> <<>>, by |-> 0, video |-> 0, audio |-> 0, clip |-> 0, duration |-> 0]

\* as find_latest_final_video, had it taken the first file of the listing
find_latest_final_video_first == IF files.finals = <<>> THEN NoFinal ELSE files.finals[1]

\* find_latest_final_video: the final_*.mp4 written last, NoFinal when there is none
find_latest_final_video == IF files.finals = <<>> THEN NoFinal ELSE files.finals[Len(files.finals)]

\* find_script_generator: the script to run, "" for FileNotFoundError
find_script_generator(prefer, ollama_exists) ==
  IF prefer = "ollama" THEN (IF ollama_exists THEN "generate_script_ollama" ELSE "")
  ELSE IF prefer = "local" THEN "generate_script"
  ELSE IF ollama_exists THEN "generate_script_ollama"
  ELSE "generate_script"

Launches(kind, opts) ==
  /\ orch.state = "done"
  /\ runs < MaxRuns
  /\ runs' = runs + 1
  /\ orch' = [kind |-> kind, state |-> "running", id |-> Earlier + runs + 1, step |-> 0,
              prefer |-> opts.prefer, ollama_script |-> opts.ollama_script, topic |-> <<>>]
  /\ stage' = [k \in Stages |-> "Pending"]
  /\ out' = <<>>
  /\ exit' = -1
  /\ rc' = 0
  /\ loc' = NoLoc
  /\ other' = 0

\* subprocess.run starts stage k's script
Spawns(k, script) ==
  /\ proc' = script
  /\ pc' = "start"
  /\ stage' = [stage EXCEPT ![k] = "Running"]
  /\ orch' = [orch EXCEPT !.step = k]

Response(status, code, video, topic, script) ==
  [status |-> status, code |-> code, video |-> video, topic |-> topic, script |-> script,
   detail |-> FALSE, keys |-> {}, results |-> NoResults]

\* the object with its top-level keys
Keyed(response, keys) == [response EXCEPT !.keys = keys]

ErrorSummary(code) ==
  Keyed(Response("error", code, NoFinal, <<>>, <<>>), { "status", "message" })

\* the keys of the objects that report a success
SummaryKeys ==
  { "status", "video_path", "file_size_mb", "duration_seconds", "timestamp", "render",
    "script_generator" }
RunAnimationKeys ==
  { "status", "message", "topic", "category", "video_path", "file_size_mb",
    "duration_seconds", "youtube_title", "youtube_description", "youtube_tags",
    "timestamp" }
GenerationKeys ==
  { "status", "message", "total_videos", "successful", "failed", "videos",
    "output_directory", "results_file" }

\* raise HTTPException(status_code, detail): the body is {"detail": detail}
HTTPException(status_code, detail) ==
  [detail EXCEPT !.code = status_code, !.detail = TRUE, !.keys = { "detail" }]

StartCli ==
  /\ \E prefer \in {"auto", "ollama", "local"}, e \in BOOLEAN :
       Launches("cli", [prefer |-> prefer, ollama_script |-> e])
  /\ proc' = "none"
  /\ pc' = "none"
  /\ UNCHANGED << files, media >>

\* main: the next run(...) call
CliRun ==
  /\ orch.kind = "cli" /\ orch.state = "running"
  /\ pc = "none"
  /\ orch.step < 7
  /\ LET k == orch.step + 1
         script == IF k = 2 THEN find_script_generator(orch.prefer, orch.ollama_script)
                   ELSE StageScript[k]
     IN  /\ script # ""
         /\ Spawns(k, script)
  /\ UNCHANGED << files, media, loc, rc, out, exit, runs, other >>

\* find_script_generator raises: the handler under __main__ prints the error
CliNoGenerator ==
  /\ orch.kind = "cli" /\ orch.state = "running"
  /\ pc = "none"
  /\ orch.step = 1
  /\ find_script_generator(orch.prefer, orch.ollama_script) = ""
  /\ orch' = [orch EXCEPT !.state = "done"]
  /\ out' = Append(out, ErrorSummary(1))
  /\ exit' = 1
  /\ UNCHANGED << files, media, stage, proc, pc, loc, rc, runs, other >>

\* run: returncode 0, the call returns
CliStepOk ==
  /\ orch.kind = "cli" /\ orch.state = "running"
  /\ pc = "exited"
  /\ rc = 0
  /\ stage' = [stage EXCEPT ![orch.step] = "Succeeded"]
  /\ pc' = "none"
  /\ UNCHANGED << files, media, orch, proc, loc, rc, out, exit, runs, other >>

\* as CliStepFailed, had run() logged the failure and returned
CliStepFailed_Logged ==
  /\ orch.kind = "cli" /\ orch.state = "running"
  /\ pc = "exited"
  /\ rc # 0
  /\ stage' = [stage EXCEPT ![orch.step] = "Failed"]
  /\ pc' = "none"
  /\ UNCHANGED << files, media, orch, proc, loc, rc, out, exit, runs, other >>

\* as CliStepFailed, had the handler under __main__ cleared output/ on a failure
CliStepFailed_Clears ==
  /\ orch.kind = "cli" /\ orch.state = "running"
  /\ pc = "exited"
  /\ rc # 0
  /\ stage' = [stage EXCEPT ![orch.step] = "Failed"]
  /\ pc' = "none"
  /\ orch' = [orch EXCEPT !.state = "done"]
  /\ out' = Append(out, ErrorSummary(1))
  /\ exit' = 1
  /\ files' = FreshStore
  /\ UNCHANGED << media, proc, loc, rc, runs, other >>

\* run: returncode # 0 raises RuntimeError, main does not catch it, the handler
\* under __main__ prints {"status": "error", "message": ...} and exits with 1
CliStepFailed ==
  /\ orch.kind = "cli" /\ orch.state = "running"
  /\ pc = "exited"
  /\ rc # 0
  /\ stage' = [stage EXCEPT ![orch.step] = "Failed"]
  /\ pc' = "none"
  /\ orch' = [orch EXCEPT !.state = "done"]
  /\ out' = Append(out, ErrorSummary(1))
  /\ exit' = 1
  /\ UNCHANGED << files, media, proc, loc, rc, runs, other >>

\* main after the seventh run(...): the summary, return 0
CliSummary ==
  /\ orch.kind = "cli" /\ orch.state = "running"
  /\ pc = "none"
  /\ orch.step = 7
  /\ orch' = [orch EXCEPT !.state = "done"]
  /\ out' = Append(out, Keyed(Response("success", 0, find_latest_final_video, <<>>, <<>>),
                               SummaryKeys))
  /\ exit' = 0
  /\ UNCHANGED << files, media, stage, proc, pc, loc, rc, runs, other >>

\* ------------------------------------------ server.py: POST /run-animation
StartServer ==
  /\ \E e \in BOOLEAN : Launches("server", [prefer |-> "auto", ollama_script |-> e])
  /\ proc' = "none"
  /\ pc' = "none"
  /\ UNCHANGED << files, media >>

\* run_animation: the next subprocess.run(..., check=True)
ServerRun ==
  /\ orch.kind = "server" /\ orch.state = "running"
  /\ pc = "none"
  /\ orch.step < 7
  /\ LET k == orch.step + 1
     IN  Spawns(k, IF k = 2 THEN find_script_generator("auto", orch.ollama_script)
                   ELSE StageScript[k])
  /\ UNCHANGED << files, media, loc, rc, out, exit, runs, other >>

\* the call returns; after step 1 topic.json is read for the response
ServerStepOk ==
  /\ orch.kind = "server" /\ orch.state = "running"
  /\ pc = "exited"
  /\ rc = 0
  /\ orch.step = 1 => files.topic.st = "ok"
  /\ stage' = [stage EXCEPT ![orch.step] = "Succeeded"]
  /\ pc' = "none"
  /\ orch' = IF orch.step = 1 THEN [orch EXCEPT !.topic = files.topic.topic] ELSE orch
  /\ UNCHANGED << files, media, proc, loc, rc, out, exit, runs, other >>

\* as ServerStepFailed, had subprocess.run been called without check=True
ServerStepFailed_Unchecked ==
  /\ orch.kind = "server" /\ orch.state = "running"
  /\ pc = "exited"
  /\ rc # 0
  /\ stage' = [stage EXCEPT ![orch.step] = "Failed"]
  /\ pc' = "none"
  /\ UNCHANGED << files, media, orch, proc, loc, rc, out, exit, runs, other >>

\* CalledProcessError: HTTPException(500) with status "error" in its detail
ServerStepFailed ==
  /\ orch.kind = "server" /\ orch.state = "running"
  /\ pc = "exited"
  /\ rc # 0
  /\ stage' = [stage EXCEPT ![orch.step] = "Failed"]
  /\ pc' = "none"
  /\ orch' = [orch EXCEPT !.state = "done"]
  /\ out' = Append(out, HTTPException(500, ErrorSummary(500)))
  /\ exit' = 500
  /\ UNCHANGED << files, media, proc, loc, rc, runs, other >>

\* the response 200 with the newest final_*.mp4
ServerSummary ==
  /\ orch.kind = "server" /\ orch.state = "running"
  /\ pc = "none"
  /\ orch.step = 7
  /\ orch' = [orch EXCEPT !.state = "done"]
  /\ out' = Append(out, Keyed(Response("success", 200, find_latest_final_video,
                                        orch.topic, <<>>), RunAnimationKeys))
  /\ exit' = 200
  /\ UNCHANGED << files, media, stage, proc, pc, loc, rc, runs, other >>

\* ---------------------- server.py: a second POST /run-animation in flight
\* run_animation is a plain def: each request runs in a thread of the pool, and
\* nothing in it takes a lock. The second request is followed through the stages
\* that write topic.json and script.json, each taken as one step.
\* the stages of the second request that are followed
OtherStages == Len(<< "generate_prompt", "generate_script", "combine_video" >>)
OtherId == Earlier + MaxRuns + 1
\* the topic its generate_prompt draws
OtherTopic == << "Pi" >>

\* as OtherStage, had run_animation held a lock for the whole run
OtherStage_Serialized ==
  /\ orch.kind = "server" /\ orch.state = "done"
  /\ other < OtherStages
  /\ other' = other + 1
  /\ UNCHANGED << files, media, orch, stage, proc, pc, loc, rc, out, exit, runs >>

\* the next stage of the second request: it writes its artifact, or it fails on
\* a topic.json that it cannot read and the request ends; its combine_video
\* takes what it finds in output/ and media/ then (clips of one second) and
\* fails when one is missing
OtherStage ==
  /\ orch.kind = "server" /\ orch.state = "running"
  /\ other < OtherStages
  /\ \/ /\ other = 0
        /\ \E s \in Summaries :
             files' = [files EXCEPT !.topic =
               [st |-> "ok", fmt |-> "pipeline", topic |-> OtherTopic, explanation |-> s,
                by |-> OtherId]]
        /\ other' = 1
     \/ /\ other = 1 /\ files.topic.st = "ok"
        /\ files' = [files EXCEPT !.script =
               [st |-> "ok", fmt |-> "pipeline", topic |-> TopicOrDefault(files.topic.topic),
                full_text |-> W(60), source |-> "ollama", by |-> OtherId]]
        /\ other' = 2
     \/ /\ other = 1 /\ files.topic.st # "ok"
        /\ other' = OtherStages
        /\ UNCHANGED files
     \/ /\ other = 2
        /\ other' = OtherStages
        /\ IF video_file = "" \/ files.audio.st = "absent" \/ files.topic.st # "ok"
           THEN UNCHANGED files
           ELSE files' = [files EXCEPT !.finals =
                  WriteFinal(@, [name |-> sanitize_filename(Spelled(files.topic.topic)),
                                 by |-> OtherId, video |-> media[video_file],
                                 audio |-> files.audio.by, clip |-> 1,
                                 duration |-> adjusted_duration(1, 1)])]
  /\ UNCHANGED << media, orch, stage, proc, pc, loc, rc, out, exit, runs >>

\* ------------------------------------- a stage script started on its own
StartScript ==
  /\ Launches("script", [prefer |-> "auto", ollama_script |-> TRUE])
  /\ \E script \in { "generate_prompt", "generate_script", "generate_script_ollama",
                     "analyze_script", "download_images", "generate_audio",
                     "manim_render", "combine_video" } : proc' = script
  /\ pc' = "start"
  /\ UNCHANGED << files, media >>

ScriptReturns ==
  /\ orch.kind = "script" /\ orch.state = "running"
  /\ pc = "exited"
  /\ orch' = [orch EXCEPT !.state = "done"]
  /\ exit' = rc
  /\ pc' = "none"
  /\ UNCHANGED << files, media, stage, proc, loc, rc, out, runs, other >>

\* ------------------------------------- generate_bulk.create_dynamic_video
\* select_topic_from_wikipedia: the search has results
BulkTopicSearch ==
  /\ Running("generate_bulk", "start")
  /\ \E t \in WikipediaTitles : loc' = [NoLoc EXCEPT !.topic = t]
  /\ pc' = "wiki"
  /\ UNCHANGED << files, media, proc, rc, orchVars >>

\* the search raises or is empty, the random-page query answers
BulkTopicRandom ==
  /\ Running("generate_bulk", "start")
  /\ \E t \in WikipediaTitles : loc' = [NoLoc EXCEPT !.topic = t]
  /\ pc' = "wiki"
  /\ UNCHANGED << files, media, proc, rc, orchVars >>

\* both fail: the first result of the search for "mathematical", else "Mathematics"
BulkTopicLastResort ==
  /\ Running("generate_bulk", "start")
  /\ \E t \in WikipediaTitles \cup { << "Mathematics" >> } : loc' = [NoLoc EXCEPT !.topic = t]
  /\ pc' = "wiki"
  /\ UNCHANGED << files, media, proc, rc, orchVars >>

\* fetch_wikipedia_info: the summary, or None
BulkWikiInfo ==
  /\ Running("generate_bulk", "wiki")
  /\ \/ \E s \in WikiSummaries : loc' = [loc EXCEPT !.has_wiki = TRUE, !.summary = s]
     \/ loc' = [loc EXCEPT !.has_wiki = FALSE]
  /\ pc' = "script"
  /\ UNCHANGED << files, media, proc, rc, orchVars >>

\* the fallback of generate_script_with_qwen, as script.split() gives it
wikipedia_fallback_script(topic, has_wiki, summary) ==
  IF has_wiki
  THEN LET main_content == IF Flatten(Take(summary, 3)) = <<>> THEN << "." >>
                           ELSE Flatten(Take(summary, 3))
       IN  << "Let", "me", "tell", "you", "about" >> \o topic \o main_content
           \o << "This", "concept", "is", "fundamental", "to", "mathematics", "and",
                 "continues", "to", "fascinate", "researchers", "and", "enthusiasts",
                 "worldwide.", "Understanding" >> \o topic
           \o << "opens", "doors", "to", "deeper", "mathematical", "insights." >>
  ELSE topic
       \o << "is", "one", "of", "the", "most", "fascinating", "concepts", "in",
             "mathematics.", "It", "reveals", "deep", "truths", "about", "numbers,",
             "patterns,", "and", "the", "structure", "of", "mathematical", "reality.",
             "This", "concept", "has", "applications", "across", "science,",
             "engineering,", "and", "technology.", "From", "theoretical", "foundations",
             "to", "practical", "implementations," >> \o topic
       \o << "continues", "to", "shape", "our", "understanding", "of", "the",
             "mathematical", "universe", "and", "its", "countless", "applications." >>

\* the model's text when it has at least 50 words, else the fallback
generate_script_with_qwen(topic, has_wiki, summary, generated) ==
  IF Len(generated) < 50 THEN wikipedia_fallback_script(topic, has_wiki, summary)
  ELSE generated

\* the same script as script.split('. ') gives it: the model's text is one
\* sentence, the fallback is its introduction, main content and conclusion
script_sentences(topic, has_wiki, summary, generated) ==
  IF Len(generated) >= 50 THEN << generated >>
  ELSE IF has_wiki
  THEN << << "Let", "me", "tell", "you", "about" >> \o topic >>
       \o (IF summary = <<>> THEN << <<>> >> ELSE Take(summary, 3))
       \o << << "This", "concept", "is", "fundamental", "to", "mathematics", "and",
                "continues", "to", "fascinate", "researchers", "and", "enthusiasts",
                "worldwide" >>,
              << "Understanding" >> \o topic
                \o << "opens", "doors", "to", "deeper", "mathematical", "insights." >> >>
  ELSE << topic \o << "is", "one", "of", "the", "most", "fascinating", "concepts",
                       "in", "mathematics" >>,
          << "It", "reveals", "deep", "truths", "about", "numbers,", "patterns,",
             "and", "the", "structure", "of", "mathematical", "reality" >>,
          << "This", "concept", "has", "applications", "across", "science,",
             "engineering,", "and", "technology" >>,
          << "From", "theoretical", "foundations", "to", "practical",
             "implementations," >> \o topic
            \o << "continues", "to", "shape", "our", "understanding", "of", "the",
                  "mathematical", "universe", "and", "its", "countless",
                  "applications." >> >>

\* generate_script_with_qwen: the model answers (<<>> also stands for it raising)
BulkScript ==
  /\ Running("generate_bulk", "script")
  /\ \E generated \in OllamaTexts :
       loc' = [loc EXCEPT
         !.text = generate_script_with_qwen(loc.topic, loc.has_wiki, loc.summary, generated),
         !.sentences = script_sentences(loc.topic, loc.has_wiki, loc.summary, generated)]
  /\ pc' = "keyframes"
  /\ UNCHANGED << files, media, proc, rc, orchVars >>

\* the formula of a known topic, else the topic itself
extract_formula_from_wiki(topic) ==
  IF \E i \in 1..Len(topic) : topic[i] = "Euler's" THEN << "e^(ipi)", "+", "1", "=", "0" >>
  ELSE IF \E i \in 1..Len(topic) : topic[i] = "Pythagorean" THEN << "a2", "+", "b2", "=", "c2" >>
  ELSE topic

colors == << "YELLOW", "BLUE", "WHITE", "GREEN", "GOLD", "RED" >>

\* a sentence with its full stop
clean_sentence(sentence) ==
  IF sentence[Len(sentence)] \in { "insights.", "applications." } THEN sentence
  ELSE sentence \o << "." >>

\* list.insert(index, item)
insert(list, index, item) ==
  Take(list, index) \o << item >> \o SubSeq(list, index + 1, Len(list))

\* the keyframes (durations in tenths of a second); raises: building them raised
generate_animation_keyframes_with_qwen(topic, script, raises) ==
  IF raises
  THEN << [type |-> "text", content |-> topic, duration |-> 50, color |-> "YELLOW"],
          [type |-> "formula", content |-> << "x^2", "+", "y^2", "=", "z^2" >>,
           duration |-> 50, color |-> "BLUE"] >>
  ELSE LET kept == SelectSeq(script, LAMBDA s : Chars(s) > 10)
           sentences ==
             IF Len(kept) < 3
             THEN << << "Let's", "explore" >> \o topic,
                     topic \o << "is", "a", "fascinating", "mathematical", "concept" >>,
                     << "It", "has", "applications", "across", "science", "and",
                        "engineering" >>,
                     << "Understanding", "this", "opens", "new", "mathematical",
                        "insights" >> >>
             ELSE kept
           keyframes ==
             [i \in 1..Len(Take(sentences, 6)) |->
                [type |-> "text", content |-> clean_sentence(sentences[i]),
                 duration |-> 35, color |-> colors[((i - 1) % Len(colors)) + 1]]]
       IN  insert(keyframes, 2,
                  [type |-> "formula", content |-> extract_formula_from_wiki(topic),
                   duration |-> 40, color |-> "BLUE"])

\* STEP 5 of create_dynamic_video: the keyframes of the script
BulkKeyframes ==
  /\ Running("generate_bulk", "keyframes")
  /\ \E raises \in BOOLEAN :
       loc' = [loc EXCEPT !.keyframes =
                 generate_animation_keyframes_with_qwen(loc.topic, loc.sentences, raises)]
  /\ pc' = "files"
  /\ UNCHANGED << files, media, proc, rc, orchVars >>

\* topic.json, script.json and entities.json in this entry point's layout
BulkWriteFiles ==
  /\ Running("generate_bulk", "files")
  /\ files' = [files EXCEPT
       !.topic = [st |-> "ok", fmt |-> "bulk", topic |-> loc.topic,
                  explanation |-> <<>>, by |-> orch.id],
       !.script = [st |-> "ok", fmt |-> "bulk", topic |-> <<>>,
                   full_text |-> loc.text, source |-> "bulk", by |-> orch.id],
       !.entities = [st |-> "ok", fmt |-> "bulk", images |-> {},
                     formulas |-> { extract_formula_from_wiki(loc.topic) },
                     has_downloaded |-> FALSE, downloaded_images |-> {}, by |-> orch.id]]
  /\ pc' = "audio"
  /\ UNCHANGED << media, proc, loc, rc, orchVars >>

\* the text-to-speech engines in use; pyttsx3 speaks offline, edge_tts and gTTS
\* send the text to a service (Microsoft Edge's, Google Translate's)
needs_network == [e \in { "edge_tts", "gTTS", "pyttsx3" } |-> e # "pyttsx3"]

\* generate_audio: Edge TTS saves the file
BulkAudioEdge ==
  /\ Running("generate_bulk", "audio")
  /\ files' = [files EXCEPT !.audio_mp3 = [st |-> "ok", by |-> orch.id]]
  /\ loc' = [loc EXCEPT !.audio_generated = TRUE, !.tried = << "edge_tts" >>]
  /\ pc' = "duration"
  /\ UNCHANGED << media, proc, rc, orchVars >>

\* generate_audio: Edge TTS raises, gTTS saves the file
BulkAudioGtts ==
  /\ Running("generate_bulk", "audio")
  /\ files' = [files EXCEPT !.audio_mp3 = [st |-> "ok", by |-> orch.id]]
  /\ loc' = [loc EXCEPT !.audio_generated = TRUE, !.tried = << "edge_tts", "gTTS" >>]
  /\ pc' = "duration"
  /\ UNCHANGED << media, proc, rc, orchVars >>

\* generate_audio: both raise, the function returns False
BulkAudioNone ==
  /\ Running("generate_bulk", "audio")
  /\ loc' = [loc EXCEPT !.audio_generated = FALSE, !.tried = << "edge_tts", "gTTS" >>]
  /\ pc' = "duration"
  /\ UNCHANGED << files, media, proc, rc, orchVars >>

\* audio_duration, in tenths of a second
\* MP3(audio_path).info.length
BulkDurationMeasured ==
  /\ Running("generate_bulk", "duration")
  /\ loc.audio_generated /\ files.audio_mp3.st = "ok"
  /\ \E d \in Durations :
       loc' = [loc EXCEPT !.audio_duration = 10 * d, !.source = "measured"]
  /\ pc' = "render"
  /\ UNCHANGED << files, media, proc, rc, orchVars >>

\* mutagen raises: word_count / 2.5
BulkDurationEstimated ==
  /\ Running("generate_bulk", "duration")
  /\ loc.audio_generated /\ files.audio_mp3.st = "ok"
  /\ loc' = [loc EXCEPT !.audio_duration = 4 * Len(loc.text), !.source = "estimated"]
  /\ pc' = "render"
  /\ UNCHANGED << files, media, proc, rc, orchVars >>

\* no audio: audio_duration keeps its initial value 60.0
BulkDurationDefault ==
  /\ Running("generate_bulk", "duration")
  /\ ~(loc.audio_generated /\ files.audio_mp3.st = "ok")
  /\ loc' = [loc EXCEPT !.audio_duration = 600, !.source = "default"]
  /\ pc' = "render"
  /\ UNCHANGED << files, media, proc, rc, orchVars >>

\* manim fails, or its video is not where it is looked for: return None
BulkRenderFails ==
  /\ Running("generate_bulk", "render")
  /\ Exits(1)
  /\ UNCHANGED << files, media, orchVars >>

\* manim renders; with audio ffmpeg merges it (or the video is copied when ffmpeg
\* fails), without audio the video is copied; then media/ is removed
BulkRenderAndMerge ==
  /\ Running("generate_bulk", "render")
  /\ \E merged \in BOOLEAN :
       /\ merged => loc.audio_generated /\ files.audio_mp3.st = "ok"
       /\ files' = [files EXCEPT !.videos =
            WriteFinal(@, [name |-> safe_name(Spelled(loc.topic)), by |-> orch.id,
                           video |-> orch.id,
                           audio |-> IF merged THEN files.audio_mp3.by ELSE 0,
                           clip |-> 0, duration |-> loc.audio_duration])]
  /\ media' = [p \in DOMAIN media |-> 0]
  /\ Exits(0)
  /\ UNCHANGED << orchVars >>

StartBulk ==
  /\ Launches("bulk", [prefer |-> "auto", ollama_script |-> TRUE])
  /\ proc' = "generate_bulk"
  /\ pc' = "start"
  /\ UNCHANGED << files, media >>

\* main counts the video when create_dynamic_video returned its path
BulkReturns ==
  /\ orch.kind = "bulk" /\ orch.state = "running"
  /\ pc = "exited"
  /\ orch' = [orch EXCEPT !.state = "done"]
  /\ out' = Append(out, Response(IF rc = 0 THEN "success" ELSE "error", 0,
                                  IF rc = 0 THEN files.videos[Len(files.videos)] ELSE NoFinal,
                                  files.topic.topic, <<>>))
  /\ exit' = 0
  /\ pc' = "none"
  /\ UNCHANGED << files, media, stage, proc, loc, rc, runs, other >>

BulkStep ==
  \/ BulkTopicSearch \/ BulkTopicRandom \/ BulkTopicLastResort \/ BulkWikiInfo
  \/ BulkScript \/ BulkWriteFiles \/ BulkAudioEdge \/ BulkAudioGtts \/ BulkAudioNone
  \/ BulkKeyframes
  \/ BulkDurationMeasured \/ BulkDurationEstimated \/ BulkDurationDefault
  \/ BulkRenderFails \/ BulkRenderAndMerge

\* --------------------------------------- server.py: POST /scripts/generate
\* topics a request can name; <<>> is a blank topic
RequestTopics == { <<>>, << "Pi" >>, << "Pythagorean", "theorem" >> }

\* the Wikipedia-only fallback of scripts_generate, as text.split() gives it
template_fallback(topic, wiki_text) ==
  LET sentences == IF wiki_text = <<>> THEN << << "About" >> \o topic >> ELSE wiki_text
      joined == Flatten(Take(sentences, 3))
      body == IF joined = <<>> THEN << "." >> ELSE joined
  IN  << "Let's", "talk", "about" >> \o topic \o body
      \o << "This", "concept", "shows", "up", "across", "math", "and", "science.",
            "Understanding" >> \o topic
      \o << "helps", "build", "strong", "intuition." >>

StartApi ==
  /\ Launches("api", [prefer |-> "auto", ollama_script |-> TRUE])
  /\ proc' = "scripts_generate"
  /\ pc' = "start"
  /\ UNCHANGED << files, media >>

\* a blank topic is refused with 400
ApiBlankTopic ==
  /\ Running("scripts_generate", "start")
  /\ orch' = [orch EXCEPT !.state = "done"]
  /\ out' = Append(out, HTTPException(400, ErrorSummary(400)))
  /\ exit' = 400
  /\ pc' = "exited"
  /\ UNCHANGED << files, media, stage, proc, loc, rc, runs, other >>

\* fetch_wikipedia_summary: the summary, or the topic itself when the call raises
ApiWikipedia ==
  /\ Running("scripts_generate", "start")
  /\ \E topic \in RequestTopics \ { <<>> }, provider \in { "ollama", "transformers", "" } :
       \E wiki_text \in WikiSummaries \cup { << topic >> } :
         loc' = [NoLoc EXCEPT !.topic = topic, !.provider = provider, !.summary = wiki_text]
  /\ pc' = "provider"
  /\ UNCHANGED << files, media, proc, rc, orchVars >>

\* the provider scripts_generate calls next, "" when it calls no other
next_provider(provider, tried, text) ==
  IF tried = <<>> THEN (IF provider = "transformers" THEN "transformers" ELSE "ollama")
  ELSE IF provider \notin { "ollama", "transformers" } /\ tried = << "ollama" >> /\ text = <<>>
  THEN "transformers"
  ELSE ""

\* try_ollama_generate: the probe fails, it returns None
ApiOllamaUnreachable ==
  /\ Running("scripts_generate", "provider")
  /\ next_provider(loc.provider, loc.tried, loc.text) = "ollama"
  /\ loc' = [loc EXCEPT !.tried = Append(@, "ollama"), !.text = <<>>, !.source = ""]
  /\ UNCHANGED << files, media, proc, pc, rc, orchVars >>

\* try_ollama_generate: the probe answers 200; _pick_ollama_model asks for the
\* tags again and builds the payload (have is empty when this second GET fails)
ApiOllamaPick ==
  /\ Running("scripts_generate", "provider")
  /\ next_provider(loc.provider, loc.tried, loc.text) = "ollama"
  /\ \E have \in InstalledModels, preferred \in PreferredModels :
       loc' = [loc EXCEPT !.probe = "ok", !.have = have, !.preferred = preferred,
                          !.model = server_pick_ollama_model(preferred, have)]
  /\ pc' = "generate"
  /\ UNCHANGED << files, media, proc, rc, orchVars >>

\* try_ollama_generate: the generate call; None when it fails, else the response
ApiTryOllama ==
  /\ Running("scripts_generate", "generate")
  /\ \E t \in OllamaTexts :
       loc' = [loc EXCEPT !.tried = Append(@, "ollama"), !.text = t,
                          !.source = IF t = <<>> THEN "" ELSE "ollama",
                          !.probe = "", !.have = {}, !.preferred = "", !.model = ""]
  /\ pc' = "provider"
  /\ UNCHANGED << files, media, proc, rc, orchVars >>

\* try_transformers_generate: None when anything raises, else the decoded text
ApiTryTransformers ==
  /\ Running("scripts_generate", "provider")
  /\ next_provider(loc.provider, loc.tried, loc.text) = "transformers"
  /\ \E t \in OllamaTexts :
       loc' = [loc EXCEPT !.tried = Append(@, "transformers"), !.text = t,
                          !.source = IF t = <<>> THEN "" ELSE "transformers"]
  /\ UNCHANGED << files, media, proc, pc, rc, orchVars >>

\* no text: the fallback; then the response
ApiRespond ==
  /\ Running("scripts_generate", "provider")
  /\ next_provider(loc.provider, loc.tried, loc.text) = ""
  /\ LET text == IF loc.text = <<>> THEN template_fallback(loc.topic, loc.summary)
                 ELSE loc.text
     IN  /\ loc' = [loc EXCEPT !.text = text,
                               !.source = IF loc.text = <<>> THEN "template" ELSE @]
         /\ out' = Append(out, Keyed(Response("success", 200, NoFinal, loc.topic, text),
                                      { "status", "topic", "word_count", "script" }))
  /\ orch' = [orch EXCEPT !.state = "done"]
  /\ exit' = 200
  /\ pc' = "exited"
  /\ UNCHANGED << files, media, stage, proc, rc, runs, other >>

\* ------------------------------- scripts/generate_bulk_videos.py
\* prompts.csv files: none, a header only, one row of two variations, two rows,
\* two rows of which the second has a Variations cell that int() rejects
PromptFiles ==
  { NoPrompts,
    [st |-> "ok", rows |-> <<>>],
    [st |-> "ok", rows |-> << [Name |-> "spiral", Variations |-> "2"] >>],
    [st |-> "ok", rows |-> << [Name |-> "spiral", Variations |-> "1"],
                              [Name |-> "wave", Variations |-> "2"] >>],
    [st |-> "ok", rows |-> << [Name |-> "spiral", Variations |-> "1"],
                              [Name |-> "wave", Variations |-> "two"] >>] }

\* read_prompts_csv: one task per row and variation, in the order of the rows;
\* [] when the file is missing or a row raises
read_prompts_csv(csv) ==
  LET cells == << "0", "1", "2" >>
      int(cell) == (CHOOSE n \in 1..Len(cells) : cells[n] = cell) - 1
      RECURSIVE prompts(_)
      prompts(rows) ==
        IF rows = <<>> THEN <<>>
        ELSE [i \in 1..int(Head(rows).Variations) |->
                [name |-> Head(rows).Name, variation |-> i]] \o prompts(Tail(rows))
  IN  IF csv.st = "absent" THEN <<>>
      ELSE IF \E k \in 1..Len(csv.rows) :
                \A n \in 1..Len(cells) : cells[n] # csv.rows[k].Variations THEN <<>>
      ELSE prompts(csv.rows)

\* generate_bulk_videos reads the tasks and returns None when there is none; the
\* endpoint passes its csv_path, auto_generate_pipeline passes prompts.csv
BulkVideosRead ==
  /\ Running("generate_bulk_videos", "start")
  /\ \E csv \in (IF orch.kind = "auto" THEN { files.prompts }
                 ELSE PromptFiles \cup { files.prompts }) :
       LET tasks == read_prompts_csv(csv)
       IN  /\ loc' = [NoLoc EXCEPT !.tasks = tasks, !.results.total = Len(tasks)]
           /\ pc' = IF tasks = <<>> THEN "returned" ELSE "task"
  /\ UNCHANGED << files, media, proc, rc, orchVars >>

\* as BulkVideosTask, had the loop ended at the first task that failed
BulkVideosTask_Breaks ==
  /\ Running("generate_bulk_videos", "task")
  /\ loc.i < Len(loc.tasks)
  /\ \E video_path \in BOOLEAN :
       LET task == loc.tasks[loc.i + 1]
       IN  loc' = [loc EXCEPT
                     !.i = IF video_path THEN @ + 1 ELSE Len(loc.tasks),
                     !.results = IF video_path
                                 THEN [@ EXCEPT !.success = @ + 1,
                                                !.videos = Append(@, task)]
                                 ELSE [@ EXCEPT !.failed = @ + 1]]
  /\ UNCHANGED << files, media, proc, pc, rc, orchVars >>

\* one pass of the loop: generator.generate returns the path or None
BulkVideosTask ==
  /\ Running("generate_bulk_videos", "task")
  /\ loc.i < Len(loc.tasks)
  /\ \E video_path \in BOOLEAN :
       LET task == loc.tasks[loc.i + 1]
       IN  loc' = [loc EXCEPT
                     !.i = @ + 1,
                     !.results = IF video_path
                                 THEN [@ EXCEPT !.success = @ + 1,
                                                !.videos = Append(@, task)]
                                 ELSE [@ EXCEPT !.failed = @ + 1]]
  /\ UNCHANGED << files, media, proc, pc, rc, orchVars >>

\* after the loop the results are dumped to generation_results.json and returned
BulkVideosSave ==
  /\ Running("generate_bulk_videos", "task")
  /\ loc.i = Len(loc.tasks)
  /\ files' = [files EXCEPT !.results =
                 [st |-> "ok", total |-> loc.results.total, success |-> loc.results.success,
                  failed |-> loc.results.failed, videos |-> loc.results.videos,
                  by |-> orch.id]]
  /\ loc' = [loc EXCEPT !.saved = @ + 1]
  /\ pc' = "returned"
  /\ UNCHANGED << media, proc, rc, orchVars >>

\* --------------------------------- scripts/auto_generate_pipeline.py
\* main's parser rejects the arguments (a --backend outside its choices): exit 2
AutoUsage ==
  /\ Running("auto_generate_pipeline", "start")
  /\ pc' = "exited"
  /\ rc' = 2
  /\ UNCHANGED << files, media, proc, loc, orchVars >>

\* step 1: run_command starts generate_prompts_hf.py
AutoPrompts ==
  /\ Running("auto_generate_pipeline", "start")
  /\ stage' = [stage EXCEPT ![1] = "Running"]
  /\ orch' = [orch EXCEPT !.step = 1]
  /\ pc' = "prompts"
  /\ UNCHANGED << files, media, proc, loc, rc, out, exit, runs, other >>

\* as AutoPromptsExit, had a failed prompt generation only been reported, as a
\* failed video generation is
AutoPromptsExit_Continues ==
  /\ Running("auto_generate_pipeline", "prompts")
  /\ \/ /\ stage' = [stage EXCEPT ![1] = "Failed"]
        /\ UNCHANGED files
     \/ /\ stage' = [stage EXCEPT ![1] = "Succeeded"]
        /\ \E csv \in (PromptFiles \ { NoPrompts }) \cup { files.prompts } :
             files' = [files EXCEPT !.prompts = csv]
  /\ pc' = "videos"
  /\ UNCHANGED << media, orch, proc, loc, rc, out, exit, runs, other >>

\* generate_prompts_hf.py exits: non-zero (run_command returns False and
\* autonomous_generation returns False, which main drops: exit 0), or 0 with
\* prompts.csv written, or 0 with no prompt generated and nothing written
AutoPromptsExit ==
  /\ Running("auto_generate_pipeline", "prompts")
  /\ \/ /\ stage' = [stage EXCEPT ![1] = "Failed"]
        /\ loc' = [loc EXCEPT !.returned = "False"]
        /\ pc' = "exited"
        /\ rc' = 0
        /\ UNCHANGED files
     \/ /\ stage' = [stage EXCEPT ![1] = "Succeeded"]
        /\ \E csv \in (PromptFiles \ { NoPrompts }) \cup { files.prompts } :
             files' = [files EXCEPT !.prompts = csv]
        /\ pc' = "videos"
        /\ UNCHANGED << loc, rc >>
  /\ UNCHANGED << media, orch, proc, out, exit, runs, other >>

\* step 2: run_command starts generate_bulk_videos.py
AutoVideos ==
  /\ Running("auto_generate_pipeline", "videos")
  /\ stage' = [stage EXCEPT ![2] = "Running"]
  /\ orch' = [orch EXCEPT !.step = 2]
  /\ proc' = "generate_bulk_videos"
  /\ pc' = "start"
  /\ UNCHANGED << files, media, loc, rc, out, exit, runs, other >>

\* generate_bulk_videos.py exits, 0 after its function returned or 1 when its
\* generator could not be initialized; either way the summary is printed,
\* autonomous_generation returns True and main ends
AutoReturns ==
  /\ orch.kind = "auto" /\ proc = "generate_bulk_videos"
  /\ \/ pc = "returned" /\ stage' = [stage EXCEPT ![2] = "Succeeded"]
     \/ pc = "task" /\ loc.i = 0 /\ stage' = [stage EXCEPT ![2] = "Failed"]
  /\ proc' = "auto_generate_pipeline"
  /\ pc' = "exited"
  /\ rc' = 0
  /\ loc' = [loc EXCEPT !.returned = "True"]
  /\ UNCHANGED << files, media, orch, out, exit, runs, other >>

\* ------------------------------- server.py: POST /auto-generate-videos
StartAuto ==
  /\ Launches("auto", [prefer |-> "auto", ollama_script |-> TRUE])
  /\ proc' = "auto_generate_pipeline"
  /\ pc' = "start"
  /\ UNCHANGED << files, media >>

\* subprocess.run returned: 200 when generation_results.json exists, else 500
AutoRespond ==
  /\ orch.kind = "auto" /\ orch.state = "running"
  /\ pc = "exited"
  /\ LET results_file_exists == files.results.st # "absent"
     IN  /\ out' = Append(out, IF results_file_exists
                                THEN [Keyed(Response("success", 200, NoFinal, <<>>, <<>>),
                                            GenerationKeys
                                              \cup { "mode", "prompts_file", "ollama_used" })
                                        EXCEPT !.results = files.results]
                                ELSE Keyed(ErrorSummary(500),
                                           { "status", "message", "output", "error" }))
         /\ exit' = IF results_file_exists THEN 200 ELSE 500
  /\ orch' = [orch EXCEPT !.state = "done"]
  /\ UNCHANGED << files, media, stage, proc, pc, loc, rc, runs, other >>

\* subprocess.TimeoutExpired after an hour: 408
AutoTimeout ==
  /\ orch.kind = "auto" /\ orch.state = "running"
  /\ pc # "exited"
  /\ out' = Append(out, Keyed(Response("timeout", 408, NoFinal, <<>>, <<>>),
                               { "status", "message" }))
  /\ exit' = 408
  /\ orch' = [orch EXCEPT !.state = "done"]
  /\ pc' = "exited"
  /\ UNCHANGED << files, media, stage, proc, loc, rc, runs, other >>

\* any other exception: 500
AutoRaises ==
  /\ orch.kind = "auto" /\ orch.state = "running"
  /\ out' = Append(out, Keyed(ErrorSummary(500), { "status", "message", "traceback" }))
  /\ exit' = 500
  /\ orch' = [orch EXCEPT !.state = "done"]
  /\ pc' = "exited"
  /\ UNCHANGED << files, media, stage, proc, loc, rc, runs, other >>

\* ------------------------------- server.py: POST /generate-bulk-videos
StartBulkVideos ==
  /\ Launches("bulk_videos", [prefer |-> "auto", ollama_script |-> TRUE])
  /\ proc' = "generate_bulk_videos"
  /\ pc' = "start"
  /\ UNCHANGED << files, media >>

\* generate_bulk_videos returned its results (200), or None for no tasks (500),
\* or LocalVideoGenerator raised on its backend (500)
BulkVideosRespond ==
  /\ orch.kind = "bulk_videos" /\ orch.state = "running"
  /\ \/ /\ pc = "returned" /\ loc.tasks # <<>>
        /\ out' = Append(out, [Keyed(Response("success", 200, NoFinal, <<>>, <<>>),
                                     GenerationKeys \cup { "backend" })
                                 EXCEPT !.results = files.results])
        /\ exit' = 200
     \/ /\ pc = "returned" /\ loc.tasks = <<>>
        /\ out' = Append(out, Keyed(ErrorSummary(500), { "status", "message", "error" }))
        /\ exit' = 500
     \/ /\ pc = "task" /\ loc.i = 0
        /\ out' = Append(out, Keyed(ErrorSummary(500),
                                    { "status", "message", "traceback" }))
        /\ exit' = 500
  /\ orch' = [orch EXCEPT !.state = "done"]
  /\ pc' = "exited"
  /\ UNCHANGED << files, media, stage, proc, loc, rc, runs, other >>

BulkVideosStep ==
  \/ BulkVideosRead \/ BulkVideosTask \/ BulkVideosSave
  \/ AutoUsage \/ AutoPrompts \/ AutoPromptsExit \/ AutoVideos \/ AutoReturns

ApiStep ==
  \/ ApiBlankTopic \/ ApiWikipedia \/ ApiOllamaUnreachable \/ ApiOllamaPick \/ ApiTryOllama \/ ApiTryTransformers \/ ApiRespond

StageStep ==
  \/ PromptChoose \/ PromptSummaryOk \/ PromptDisambiguation \/ PromptPageError
  \/ PromptOtherError \/ PromptOpen \/ PromptDump
  \/ OllamaLoad \/ OllamaPick \/ OllamaRequestFails \/ OllamaResponse \/ OllamaOpen \/ OllamaDump
  \/ LocalLoad \/ LocalOpen \/ LocalDump
  \/ AnalyzeLoad \/ AnalyzeOpen \/ AnalyzeDump
  \/ DownloadLoad \/ DownloadImageRefused \/ DownloadImageSaved \/ DownloadImageBroken
  \/ DownloadOpen \/ DownloadDump
  \/ AudioLoad \/ AudioSaved \/ AudioFails \/ AudioNotWritten
  \/ ManimRenders \/ ManimFails
  \/ CombineLoad \/ CombineWrites \/ CombineFails
  \/ Killed

Next ==
  \/ StartCli \/ CliRun \/ CliNoGenerator \/ CliStepOk \/ CliStepFailed \/ CliSummary
  \/ StartServer \/ ServerRun \/ ServerStepOk \/ ServerStepFailed \/ ServerSummary
  \/ OtherStage
  \/ StartScript \/ ScriptReturns
  \/ StageStep
  \/ StartBulk \/ BulkReturns \/ BulkStep
  \/ StartApi \/ ApiStep
  \/ StartAuto \/ AutoRespond \/ AutoTimeout \/ AutoRaises
  \/ StartBulkVideos \/ BulkVideosRespond \/ BulkVideosStep

Spec == Init /\ [][Next]_vars

\* ==================================================================== claims
InRun == orch.kind \in { "cli", "server" }
StageExits == orch.state = "running" /\ pc = "exited"
ByThisRun(seq) == { i \in 1..Len(seq) : seq[i].by = orch.id }

\* C1: in the CLI run a stage that exits non-zero ends the run at once: the stage
\* is the only failed one, every later stage stays pending, one error object is
\* printed and the exit code is non-zero; when all seven stages have exited 0 the
\* one object printed has status "success" and the exit code is 0.
C1_FirstFailureEndsCliRun ==
  [][ orch'.kind = "cli" =>
        /\ (orch.kind = "cli" /\ StageExits /\ rc # 0)
             => /\ orch'.state = "done"
                /\ stage'[orch.step] = "Failed"
                /\ exit' \notin { 0, -1 }
        /\ (orch.kind = "cli" /\ StageExits /\ rc = 0)
             => stage'[orch.step] = "Succeeded" /\ exit' = -1
        /\ \A k \in Stages : stage'[k] = "Failed" =>
             /\ \A j \in Stages : j > k => stage'[j] = "Pending"
             /\ orch'.state = "done"
             /\ exit' \notin { 0, -1 }
             /\ Len(out') = 1 /\ out'[1].status = "error"
        /\ (\A k \in Stages : stage'[k] = "Succeeded")
             => \/ orch'.state = "running" /\ out' = <<>>
                \/ exit' = 0 /\ Len(out') = 1 /\ out'[1].status = "success"
        /\ exit' = 0 => \A k \in Stages : stage'[k] = "Succeeded"
    ]_vars

\* the Mux stage of a CLI run has failed and the run has ended with an error
C1_Witness ==
  /\ orch.kind = "cli" /\ orch.state = "done"
  /\ stage[7] = "Failed"
  /\ exit = 1

\* C2: within a run of run_pipeline.main or server.run_animation at most one stage
\* is running, a stage has left Pending only if the stage before it has succeeded,
\* and the script that runs as stage k is the k-th of topic, script, analysis,
\* images, audio, render, combine.
C2_StagesInOrder ==
  InRun =>
    /\ Cardinality({ k \in Stages : stage[k] = "Running" }) <= 1
    /\ \A k \in Stages \ { 1 } : stage[k] # "Pending" => stage[k - 1] = "Succeeded"
    /\ \A k \in Stages : stage[k] = "Running" =>
         /\ orch.step = k
         /\ proc \in (CASE k = 1 -> { "generate_prompt" }
                        [] k = 2 -> { "generate_script_ollama", "generate_script" }
                        [] k = 3 -> { "analyze_script" }
                        [] k = 4 -> { "download_images" }
                        [] k = 5 -> { "generate_audio" }
                        [] k = 6 -> { "manim_render" }
                        [] k = 7 -> { "combine_video" })

\* the last stage of a server run is running
C2_Witness == orch.kind = "server" /\ stage[7] = "Running" /\ pc = "mux"

\* C3: in a pipeline run the script stage survives a failure of the Ollama
\* provider: when the generate call raises, times out, answers another status or
\* answers no text, the stage still ends with exit code 0 and a script.json of
\* this run.
C3_ProviderFailureNotFatal ==
  [][ (InRun /\ Running("generate_script_ollama", "generate") /\ pc' = "exited")
        => rc' = 0 /\ files'.script.st = "ok" /\ files'.script.by = orch.id ]_vars

\* C4: every provider cascade ends with a non-empty output also when all its
\* providers fail: generate_audio of generate_bulk with an audio file of this run,
\* generate_script_with_qwen and scripts_generate with a text, and
\* select_topic_from_wikipedia with a topic.
C4_CascadeAlwaysDelivers ==
  [][ /\ Running("generate_bulk", "audio")
        => files'.audio_mp3.st = "ok" /\ files'.audio_mp3.by = orch.id
      /\ Running("generate_bulk", "script") => loc'.text # <<>>
      /\ Running("generate_bulk", "start") => loc'.topic # <<>>
      /\ (Running("scripts_generate", "provider") /\ pc' = "exited")
        => exit' = 200 /\ out'[1].script # <<>>
    ]_vars

\* C5: topic selection never ends without a topic: generate_stem_prompt leaves
\* its retry loop with a topic (it does not end there with an error), and
\* select_topic_from_wikipedia returns a non-empty topic.
C5_TopicAlwaysSelected ==
  [][ /\ Running("generate_prompt", "summary")
        => pc' # "exited" /\ loc'.topic # <<>>
      /\ Running("generate_bulk", "start") => loc'.topic # <<>>
    ]_vars

\* C6: a stage script whose input artifact is absent or unparsable ends with a
\* non-zero exit code at once: script generation without topic.json, entity
\* analysis and audio without script.json, image download without entities.json.
C6_MissingInputFails ==
  [][ /\ (proc \in { "generate_script", "generate_script_ollama" } /\ pc = "start"
            /\ files.topic.st # "ok")
        => pc' = "exited" /\ rc' # 0
      /\ (proc \in { "analyze_script", "generate_audio" } /\ pc = "start"
            /\ files.script.st # "ok")
        => pc' = "exited" /\ rc' # 0
      /\ (Running("download_images", "start") /\ files.entities.st # "ok")
        => pc' = "exited" /\ rc' # 0
    ]_vars

\* C7: whenever no stage script is running, also after one was killed or a
\* download broke off, topic.json, script.json, entities.json and every image
\* file is absent or complete, never empty or truncated.
C7_NoPartialArtifact ==
  pc \in { "none", "exited" } =>
    /\ files.topic.st # "partial"
    /\ files.script.st # "partial"
    /\ files.entities.st # "partial"
    /\ \A n \in ImageNames : files.images[n].st # "partial"

C9_TemplateAfterAllProviders ==
  (orch.kind = "api" /\ orch.state = "done" /\ loc.source = "template") =>
    /\ Len(loc.tried) = 2
    /\ { loc.tried[1], loc.tried[2] } = { "ollama", "transformers" }
    /\ loc.provider \in { "ollama", "transformers" } => loc.tried[1] = loc.provider

\* C10: a script that comes from a templated fallback has at least 50 words, for
\* every topic and summary: the template that scripts_generate answers with and
\* the script that the local generator (structure_content) writes.
C10_FallbackHasFiftyWords ==
  /\ (orch.kind = "api" /\ orch.state = "done" /\ loc.source = "template")
       => Len(out[1].script) >= 50
  /\ (files.script.st = "ok" /\ files.script.source = "local")
       => Len(files.script.full_text) >= 50

\* C11: a provider's text becomes the script only if it has at least 50 words; a
\* shorter one is replaced by the templated fallback: in scripts_generate, in
\* generate_script_ollama.main and in generate_script_with_qwen.
C11_ShortProviderTextRejected ==
  /\ (orch.kind = "api" /\ orch.state = "done" /\ exit = 200
        /\ loc.source \in { "ollama", "transformers" })
       => Len(out[1].script) >= 50
  /\ (files.script.st = "ok" /\ files.script.source = "ollama"
        /\ files.script.by = orch.id)
       => Len(files.script.full_text) >= 50
  /\ (proc = "generate_bulk" /\ pc \in { "keyframes", "files", "audio", "duration", "render" }
        /\ loc.text \in OllamaTexts)
       => Len(loc.text) >= 50

\* C12: whatever the durations v of the video and a of the audio, the clip that
\* combine_video_audio muxes and writes lasts exactly a; when v < a the video is
\* repeated int(a / v) + 1 times and that many copies last at least a.
C12_MuxedClipHasAudioDuration ==
  [][ Running("combine_video", "mux") =>
        LET v == loc.video_duration
            a == loc.audio_duration
        IN  /\ v < a => loops_needed(v, a) * v >= a
            /\ adjusted_duration(v, a) = a
            /\ (pc' = "exited" /\ rc' = 0) =>
                 /\ files'.finals # <<>>
                 /\ files'.finals[Len(files'.finals)].by = orch.id
                 /\ files'.finals[Len(files'.finals)].duration = a
    ]_vars

\* a final video of this run was made from a clip that had to be looped twice over
C12_Witness ==
  \E i \in ByThisRun(files.finals) :
    /\ files.finals[i].clip = 2
    /\ files.finals[i].duration = MaxDuration

\* C13: when combine_video starts and none of the candidate videos, or audio.wav,
\* or topic.json exists, the step it takes ends it at once with a non-zero exit
\* code and writes nothing: output/ (the final videos included) and media/ are as
\* they were (a step of a concurrent request is not combine_video's); a CLI
\* run whose combine stage ended so ends with a non-zero exit code.
C13_MissingMuxInputFails ==
  [][ /\ (Running("combine_video", "start") /\ pc' # pc
            /\ (video_file = "" \/ files.audio.st = "absent" \/ files.topic.st = "absent"))
        => /\ pc' = "exited" /\ rc' \notin { 0 }
           /\ files' = files /\ media' = media
      /\ (orch.kind = "cli" /\ orch.step = 7 /\ StageExits /\ rc # 0)
        => /\ exit' \notin { 0, -1 }
           /\ files' = files /\ media' = media
    ]_vars

\* combine_video, started where a video and topic.json exist and audio.wav does
\* not, has ended with exit code 1
C13_Witness ==
  /\ proc = "combine_video" /\ pc = "exited" /\ rc = 1
  /\ video_file # "" /\ files.topic.st = "ok" /\ files.audio.st = "absent"
  /\ files.finals = <<>>

\* C14: within a pipeline run an artifact that a stage has written is not changed
\* by a later stage: topic.json, script.json, audio.wav and the final video stay as
\* written, and entities.json stays a complete record of this run's analysis whose
\* images are those analyze_script found; download_images only adds
\* downloaded_images to it.
C14_ArtifactsKeptWithinRun ==
  [][ InRun =>
        /\ stage[1] = "Succeeded" => files'.topic = files.topic
        /\ stage[2] = "Succeeded" => files'.script = files.script
        /\ (stage[3] = "Succeeded" /\ pc' \in { "none", "exited" }) =>
             /\ files'.entities.st = "ok"
             /\ files'.entities.by = orch.id
             /\ Running("download_images", "dump") =>
                  files'.entities = [loc.data EXCEPT !.has_downloaded = TRUE,
                                                     !.downloaded_images = loc.got]
        /\ stage[5] = "Succeeded" => files'.audio = files.audio
        /\ stage[7] = "Succeeded" => files'.finals = files.finals
    ]_vars

\* C15: in download_images a download that fails does not end the stage: while
\* images are being downloaded the script does not exit, it goes on to write
\* entities.json only when every image was attempted, it then exits with 0 (unless
\* it is killed while writing), and downloaded_images is exactly the set of names
\* whose file was downloaded completely in this run.
C15_FailedDownloadSkipped ==
  [][ /\ Running("download_images", "images") =>
           /\ pc' \in { "images", "dump" }
           /\ pc' = "dump" => loc.todo = {}
      /\ (Running("download_images", "dump") /\ pc' = "exited" /\ rc' # -9) =>
           /\ rc' = 0
           /\ files'.entities.st = "ok"
           /\ files'.entities.has_downloaded
           /\ files'.entities.downloaded_images =
                { n \in files'.entities.images :
                    files.images[n].st = "ok" /\ files.images[n].by = orch.id }
    ]_vars

\* the stage has ended with 0 after one of two downloads failed
C15_Witness ==
  /\ proc = "download_images" /\ pc = "exited" /\ rc = 0
  /\ files.entities.st = "ok"
  /\ files.entities.images = ImageNames
  /\ Cardinality(files.entities.downloaded_images) = 1

InvalidCharacters == { "<", ">", ":", "\"", "/", "\\", "|", "?", "*" }
Sanitized(name) ==
  /\ \A i \in 1..Len(name) : name[i] \notin InvalidCharacters
  /\ Len(name) <= 100

\* C16: every file name that this run built from a topic or entity text holds none
\* of the characters < > : " / \ | ? * and has at most 100 characters of that
\* text: final_<topic>.mp4 of combine_video, the names of the downloaded images
\* and the name of the video that create_dynamic_video saves.
C16_FileNamesSanitized ==
  /\ \A i \in ByThisRun(files.finals) : Sanitized(files.finals[i].name)
  /\ \A n \in ImageNames :
       files.images[n].by = orch.id => Sanitized(images_sanitize_filename(Spelled(<< n >>)))
  /\ \A i \in ByThisRun(files.videos) : Sanitized(files.videos[i].name)

\* C17: audio synthesis tries a network text-to-speech service first and then an
\* engine that works offline: the first engine tried needs the network, a second
\* one is tried only after the first raised and it needs no network, and
\* generate_audio reports success exactly when the audio file of this run exists.
C17_NetworkThenOfflineTts ==
  /\ (proc = "generate_bulk" /\ pc \in { "duration", "render" }) =>
       /\ needs_network[loc.tried[1]]
       /\ Len(loc.tried) = 2 => ~needs_network[loc.tried[2]]
       /\ loc.audio_generated <=>
            (files.audio_mp3.st = "ok" /\ files.audio_mp3.by = orch.id)
  /\ (proc = "generate_audio" /\ pc = "tts") => needs_network[loc.tried[1]]

\* C18: the audio duration that create_dynamic_video hands to the renderer is the
\* measured length of the audio file when the measurement succeeded and the
\* estimate word_count / 2.5 in every other case (in tenths of a second: four
\* times the number of words of the script).
C18_DurationMeasuredOrEstimated ==
  (proc = "generate_bulk" /\ pc = "render") =>
    IF loc.source = "measured"
    THEN loc.audio_duration \in { 10 * d : d \in Durations }
    ELSE loc.audio_duration = 4 * Len(loc.text)

\* C19: generate_animation_keyframes_with_qwen returns, for every topic and every
\* script and also when building the keyframes raised, a list of at least 4 and
\* at most 8 keyframes, each with a type, a content, a duration and a color.
C19_FourToEightKeyframes ==
  (proc = "generate_bulk" /\ pc \in { "files", "audio", "duration", "render" }) =>
    /\ Len(loc.keyframes) \in 4..8
    /\ \A i \in 1..Len(loc.keyframes) :
         DOMAIN loc.keyframes[i] = { "type", "content", "duration", "color" }

\* C20: every answer of a POST endpoint of server.py (/run-animation,
\* /auto-generate-videos, /scripts/generate, /generate-bulk-videos) is either 200
\* with status "success", or 4xx/5xx with status "error" (and the message) as
\* top-level fields of the body, not under another field; no other status value
\* is returned.
C20_SuccessOrErrorEnvelope ==
  (orch.kind \in { "server", "api", "auto", "bulk_videos" } /\ orch.state = "done") =>
    \A i \in 1..Len(out) :
      \/ out[i].code = 200 /\ out[i].status = "success" /\ ~out[i].detail
      \/ out[i].code \in 400..599 /\ out[i].status = "error" /\ ~out[i].detail

\* C21: the server does not serialize runs: while a POST /run-animation is running,
\* the next stage of a second request can run at every point of it, whatever the
\* first one is doing. (C21_Witness is the interleaving: the first run answers 200
\* with its own topic and a final video made for the topic.json that the second
\* request wrote over it.)
C21_RunsNotSerialized ==
  (orch.kind = "server" /\ orch.state = "running" /\ other < OtherStages)
    => ENABLED OtherStage

C21_Witness ==
  /\ orch.kind = "server" /\ orch.state = "done" /\ exit = 200
  /\ files.topic.by = OtherId /\ files.script.by = OtherId
  /\ out[1].video.by = orch.id
  /\ out[1].video.name # sanitize_filename(Spelled(out[1].topic))

\* C22: the script that the local generator builds has full_text equal to its
\* hook, main_point_1, main_point_2 and closing joined in that order, and the
\* word_count of its metadata is the number of words of full_text; that text is
\* what is written to script.json.
C22_FullTextIsItsParts ==
  (proc = "generate_script" /\ pc \in { "open", "dump" }) =>
    /\ loc.script.full_text = loc.script.hook \o loc.script.main_point_1
                                \o loc.script.main_point_2 \o loc.script.closing
    /\ loc.word_count = Len(loc.script.hook) + Len(loc.script.main_point_1)
                          + Len(loc.script.main_point_2) + Len(loc.script.closing)
    /\ loc.text = loc.script.full_text

C22_Witness ==
  /\ proc = "generate_script" /\ pc = "dump"
  /\ loc.script.main_point_2 # <<>>
  /\ loc.script.hook = << "One", "of", "math's", "most", "important", "results:",
                          "Pythagorean", "theorem" >>

\* C23: the script that the local generator writes is determined by topic.json: two
\* runs on the same topic and explanation write the same script.json, so the
\* script built does not depend on which closing generate_call_to_action returns
\* (it is the one built with each of them).
C23_LocalScriptDetermined ==
  (proc = "generate_script" /\ pc \in { "open", "dump" }) =>
    \A closing \in ctas :
      loc.script = [loc.script EXCEPT
                      !.closing = closing,
                      !.full_text = loc.script.hook \o loc.script.main_point_1
                                      \o loc.script.main_point_2 \o closing]

\* C24: a run of run_pipeline that has ended has printed exactly one summary, and
\* that summary has an entry for the stages, with the status and the start and
\* end time of each.
C24_OneSummaryWithStages ==
  (orch.kind = "cli" /\ orch.state = "done") =>
    /\ Len(out) = 1
    /\ "stages" \in out[1].keys

\* C25: the step in which run_pipeline.main or server.run_animation gives up a run
\* whose stage has failed changes nothing in output/ and media/: the artifacts of
\* the stages that succeeded, and whatever the failing stage wrote, stay as they
\* are.
C25_AbortKeepsArtifacts ==
  [][ (InRun /\ StageExits /\ rc # 0 /\ orch'.state = "done")
        => /\ files' = files
           /\ media' = media
           /\ stage'[orch.step] = "Failed"
           /\ \A k \in Stages : k # orch.step => stage'[k] = stage[k] ]_vars

C25_Witness ==
  /\ InRun /\ orch.state = "done"
  /\ stage[1] = "Succeeded" /\ stage[2] = "Succeeded" /\ stage[5] = "Failed"
  /\ files.topic.st = "ok" /\ files.topic.by = orch.id
  /\ files.script.st = "ok" /\ files.script.by = orch.id

\* C26: a pipeline run about "Pythagorean theorem" whose generation provider is
\* down (generate_script_ollama has ended with its exit code 2) completes
\* successfully with the script of the local template generator, entities.json
\* holds the formula a2 + b2 = c2 and the final video is
\* final_Pythagorean_theorem.mp4.
C26_PythagoreanScenario ==
  (/\ InRun /\ orch.state = "done"
   /\ stage[1] = "Succeeded"
   /\ orch.topic \in { <<>>, << "Pythagorean", "theorem" >> }
   /\ files.topic.topic = << "Pythagorean", "theorem" >> /\ files.topic.by = orch.id
   /\ rc = 2)
  => /\ exit \in { 0, 200 }
     /\ files.script.by = orch.id /\ files.script.source = "local"
     /\ << "a2", "+", "b2", "=", "c2" >> \in files.entities.formulas
     /\ find_latest_final_video.by = orch.id
     /\ find_latest_final_video.name
          = sanitize_filename(Spelled(<< "Pythagorean", "theorem" >>))

\* C27: within a run of run_pipeline.main or server.run_animation a stage only
\* goes from Pending to Running and from Running to Succeeded or Failed: it is
\* started at most once and never leaves Succeeded or Failed; and inside the topic
\* stage there are at most max_retries attempts (an attempt is one pass of the
\* retry loop: its summary call and, after a DisambiguationError, the call for the
\* first option).
C27_StageStateMachine ==
  [][ (InRun /\ orch'.id = orch.id) =>
        /\ \A k \in Stages :
             \/ stage'[k] = stage[k]
             \/ stage[k] = "Pending" /\ stage'[k] = "Running"
             \/ stage[k] = "Running" /\ stage'[k] \in { "Succeeded", "Failed" }
        /\ \A k \in Stages : stage'[k] = "Running" => k = orch'.step
        /\ loc'.attempt + 1 <= max_retries ]_vars

C27_Witness ==
  /\ InRun /\ stage[1] = "Running"
  /\ proc = "generate_prompt" /\ loc.attempt = max_retries - 1

\* C28: the generate call is sent to Ollama only after its probe GET /api/tags
\* has answered 200, in server.try_ollama_generate and in
\* generate_script_ollama.main: when the call is about to be made, the probe has
\* succeeded.
C28_ProbeBeforeGenerate ==
  (proc \in { "scripts_generate", "generate_script_ollama" } /\ pc = "generate")
    => loc.probe = "ok"

\* C29: the model that is selected is the preferred one when it is installed
\* (whatever its case), else the first of qwen3:4b, qwen2.5:4b, qwen2.5:7b that
\* is installed, else llama3.1; it is installed or it is llama3.1; and the server
\* and the script select the same model for the same installed set and preference.
C29_ModelSelection ==
  (proc \in { "scripts_generate", "generate_script_ollama" } /\ pc = "generate") =>
    /\ loc.model =
         IF loc.preferred # "" /\ lower(loc.preferred) \in loc.have THEN loc.preferred
         ELSE IF "qwen3:4b" \in loc.have THEN "qwen3:4b"
         ELSE IF "qwen2.5:4b" \in loc.have THEN "qwen2.5:4b"
         ELSE IF "qwen2.5:7b" \in loc.have THEN "qwen2.5:7b"
         ELSE "llama3.1"
    /\ lower(loc.model) \in loc.have \cup { "llama3.1" }
    /\ pick_ollama_model(loc.preferred, loc.have)
         = server_pick_ollama_model(loc.preferred, loc.have)

\* C30: the video that combine_video puts under the audio in a pipeline run is the
\* one that the render stage of the same run has written, never a rendered file
\* of an earlier run or of another renderer.
C30_MuxesThisRunsRender ==
  InRun => \A i \in ByThisRun(files.finals) : files.finals[i].video = orch.id

\* C31: POST /auto-generate-videos answers with status "success" only when the
\* pipeline subprocess of this request exited 0 and the results file it answers
\* from was written by this request.
C31_SuccessFromOwnResults ==
  (orch.kind = "auto" /\ orch.state = "done" /\ out[1].status = "success") =>
    /\ rc = 0
    /\ out[1].results.by = orch.id

C34_VideosAfterPrompts ==
  orch.kind = "auto" =>
    /\ stage[2] # "Pending" => stage[1] = "Succeeded"
    /\ proc = "generate_bulk_videos" => stage[1] = "Succeeded"
    /\ stage[1] = "Failed" => (stage[2] = "Pending" /\ loc.returned = "False")
    /\ loc.returned = "True" => stage[1] = "Succeeded"

C34_Witness ==
  /\ orch.kind = "auto" /\ Running("auto_generate_pipeline", "exited")
  /\ stage[1] = "Failed" /\ stage[2] = "Pending"
  /\ loc.returned = "False" /\ rc = 0

\* C32: a run of run_pipeline.main or server.run_animation that ends with a
\* summary of status "success" reports as video_path a final_*.mp4 that exists
\* and that the Mux stage of this run wrote: not "not found", not a final video
\* written by another run.
C32_ReportsOwnFinalVideo ==
  (InRun /\ orch.state = "done" /\ out[1].status = "success") =>
    /\ out[1].video # NoFinal
    /\ \E i \in 1..Len(files.finals) : files.finals[i] = out[1].video
    /\ out[1].video.by = orch.id

\* C32 as amended: such a run reports a final_*.mp4 that exists, never "not
\* found" and never a final video of an earlier run; the file is the one its own
\* Mux stage wrote unless a request that ran at the same time wrote a final video
\* after that, and then it is that request's file.
C32_ReportsNewestFinalVideo ==
  (InRun /\ orch.state = "done" /\ out[1].status = "success") =>
    /\ out[1].video # NoFinal
    /\ \E i \in 1..Len(files.finals) : files.finals[i] = out[1].video
    /\ out[1].video.by # Earlier
    /\ \/ out[1].video.by = orch.id
       \/ /\ orch.kind = "server" /\ other = OtherStages
          /\ out[1].video.by = OtherId

C32_Witness ==
  /\ InRun /\ orch.state = "done" /\ out[1].status = "success"
  /\ out[1].video.by = orch.id
  /\ \E i \in 1..Len(files.finals) : files.finals[i].by = Earlier

====
